---- MODULE Spec2Model ----
(***************************************************************************)
(* TileForge: the download scheduler (core/TileDownloader.js), the tile    *)
(* store and job registry (core/TileDatabase.js), the tile calculator and  *)
(* the facade (TileForge.js), as one state machine.                        *)
(*                                                                         *)
(* Time is relative: sinceLastRequest is Date.now() - lastRequestTime,     *)
(* saturated at minRequestInterval (the code only compares it with that),  *)
(* and every pending setTimeout carries the ticks it still has to run.     *)
(***************************************************************************)
EXTENDS Integers, Sequences, FiniteSets, Bags, TLC

\* ---------------------------------------------------------------- bounds
\* options.maxConcurrentDownloads
maxConcurrent == 2
\* options.rateLimit, in clock ticks
minRequestInterval == 2
\* options.cacheSize
maxCacheSize == 2
\* how many runs (download() and extendJob() calls) a behaviour starts
MaxRuns == 2
\* how many fetches of a behaviour fail
MaxFailures == 2

\* ------------------------------------------------------ program constants
\* handleTileDownloaded persists every 10th success
ProgressInterval == 10
\* isValidZoomRange: the largest zoom level; the Mercator table is scaled by 2^22
MaxZoomLevel == 22
\* isValidBounds: the largest latitude (85.051129) and longitude (180), in
\* millionths of a degree
MaxLatitude == 85051129
MaxLongitude == 180000000

Sources == {"arcgis"}

BoundsInputs == {[north |-> 60000000, south |-> 0, east |-> 90000000, west |-> 0]}

ZoomInputs == {<<0, 0>>, <<0, 1>>, <<1, 1>>}
\* a zoom range of 13 tiles, more than one progress interval
BulkZoomInputs == {<<2, 3>>}

\* arguments the validation of download and extendJob refuses
UnknownSources == {"osm"}
InvalidBoundsInputs ==
  {[north |-> 0, south |-> 60000000, east |-> 90000000, west |-> 0],
   [north |-> 90000000, south |-> 0, east |-> 90000000, west |-> 0]}
InvalidZoomInputs == {<<1, 0>>, <<0, 23>>}

\* the bytes a provider answers with
ResponseBytes == {"img"}

JobIds == 1..MaxRuns

VARIABLES
  queue,            \* TileDownloader.queue: tasks not yet started, FIFO
  activeDownloads,  \* TileDownloader.activeDownloads
  activeJobs,       \* TileDownloader.activeJobs: jobId -> job data
  downloadStats,    \* TileDownloader.downloadStats: jobId -> counters
  sinceLastRequest, \* Date.now() - TileDownloader.lastRequestTime, saturated
  inflight,         \* the pending downloadTile() calls, a bag of fetches
  jobsTable,        \* table download_jobs: id -> row
  tilesTable,       \* table tiles: (source, z, x, y) -> data
  cache,            \* TileDatabase.cache, a Map in insertion order
  nextJobId,        \* the next fresh job id generateJobId() returns
  runsStarted,      \* how many download() and extendJob() calls were made
  failures,         \* how many fetches have failed
  runPlan,          \* history: active jobId -> tiles (T) and already stored tiles (K) of its run
  runFailed,        \* history: active jobs of whose run a tile has failed
  released,         \* history: the jobs the last step released -> their last counters
  orphanDone,       \* history: the jobs of which the last step finished a fetch while inactive
  lastError,        \* history: the error the last step's call threw, or "none"
  lastPut,          \* history: cache key -> the data of the latest saveTile, until deleted
  lastGet,          \* history: the getTile call of the last step and its result, or null
  lastSave,         \* history: the saveTile call of the last step, or null
  lastDelete,       \* history: the deletion of the last step and the rows it removed, or null
  lastHas,          \* history: the hasTile call of the last step and its result, or null
  recency,          \* history: the keys the store's calls touched, the latest touch last
  lastTileBounds,   \* the getTileBounds call of the last step and its result, or null
  lastCancel,       \* history: the cancelJob call of the last step and what it returned, or null
  lastTileList,     \* the getTileList or calculateTileCount call of the last step and its result, or null
  zoomsCovered      \* history: jobId -> the zoom levels its download and extensions covered

vars == <<queue, activeDownloads, activeJobs, downloadStats, sinceLastRequest,
          inflight, jobsTable, tilesTable, cache, nextJobId, runsStarted, failures,
          runPlan, runFailed, released, orphanDone, lastError, lastPut, lastGet,
          lastSave, lastDelete, lastHas, recency, zoomsCovered, lastTileBounds,
          lastTileList, lastCancel>>

\* ------------------------------------------------------------- helpers
Min(a, b) == IF a < b THEN a ELSE b

Max(a, b) == IF a > b THEN a ELSE b

RECURSIVE Pow2(_)
Pow2(n) == IF n <= 0 THEN 1 ELSE 2 * Pow2(n - 1)

Range(seq) == {seq[i] : i \in DOMAIN seq}

Without(f, k) == [i \in DOMAIN f \ {k} |-> f[i]]

With(f, k, v) == (k :> v) @@ f

\* --------------------------------------------------- tile calculator
\* Latitudes and longitudes are in millionths of a degree.
\* floor(2^22 * (1 - ln(tan(lat) + 1/cos(lat)) / pi) / 2) for the latitudes used;
\* a product with a power of two is exact, so the y of zoom z is the floor of
\* this number over 2^(22 - z)
MercatorY22(lat) ==
  CASE lat = 85051129 -> -1
    [] lat = 85000000 -> 6869
    [] lat = 60000000 -> 1218024
    [] lat = 40000000 -> 1587876
    [] lat = 0 -> 2097152
    [] lat = -40000000 -> 2606427
    [] lat = -60000000 -> 2976279
    [] lat = -85000000 -> 4187434
    [] lat = -85051129 -> 4194304

\* floor(2^22 * (lng + 180) / 360) for the longitudes used
LongitudeX22(lng) ==
  CASE lng = -180000000 -> 0
    [] lng = -90000000 -> 1048576
    [] lng = 0 -> 2097152
    [] lng = 90000000 -> 3145728
    [] lng = 180000000 -> 4194304

latLngToTile(lat, lng, zoom) ==
  [x |-> LongitudeX22(lng) \div Pow2(MaxZoomLevel - zoom),
   y |-> MercatorY22(lat) \div Pow2(MaxZoomLevel - zoom),
   z |-> zoom]

getTileBounds(bounds, zoom) ==
  LET nwTile == latLngToTile(bounds.north, bounds.west, zoom)
      seTile == latLngToTile(bounds.south, bounds.east, zoom)
  IN [minX |-> Min(nwTile.x, seTile.x), maxX |-> Max(nwTile.x, seTile.x),
      minY |-> Min(nwTile.y, seTile.y), maxY |-> Max(nwTile.y, seTile.y),
      z |-> zoom]

\* a variant of the inner loop that stops before maxY
TileColumnExclusive(x, tb) ==
  [i \in 1..(tb.maxY - tb.minY) |-> [x |-> x, y |-> tb.minY + i - 1, z |-> tb.z]]

\* the inner loop of getTileList: one column x, y increasing
TileColumn(x, tb) ==
  [i \in 1..(tb.maxY - tb.minY + 1) |-> [x |-> x, y |-> tb.minY + i - 1, z |-> tb.z]]

\* the middle loop of getTileList: the columns x..maxX
RECURSIVE TileColumns(_, _)
TileColumns(x, tb) ==
  IF x > tb.maxX THEN <<>> ELSE TileColumn(x, tb) \o TileColumns(x + 1, tb)

RECURSIVE getTileList(_, _, _)
getTileList(bounds, minZoom, maxZoom) ==
  IF minZoom > maxZoom THEN <<>>
  ELSE LET tb == getTileBounds(bounds, minZoom)
       IN TileColumns(tb.minX, tb) \o getTileList(bounds, minZoom + 1, maxZoom)

\* calculateTileCount: width times height of each zoom level's rectangle
RECURSIVE calculateTileCount(_, _, _)
calculateTileCount(bounds, minZoom, maxZoom) ==
  IF minZoom > maxZoom THEN 0
  ELSE LET tb == getTileBounds(bounds, minZoom)
       IN (tb.maxX - tb.minX + 1) * (tb.maxY - tb.minY + 1)
            + calculateTileCount(bounds, minZoom + 1, maxZoom)

isValidBounds(bounds) ==
  /\ bounds.north >= -MaxLatitude /\ bounds.north <= MaxLatitude
  /\ bounds.south >= -MaxLatitude /\ bounds.south <= MaxLatitude
  /\ bounds.east >= -MaxLongitude /\ bounds.east <= MaxLongitude
  /\ bounds.west >= -MaxLongitude /\ bounds.west <= MaxLongitude
  /\ bounds.north > bounds.south

isValidSource(sourceId) == sourceId \in Sources

\* a variant that does not compare the two ends
isValidZoomRangeUnordered(minZoom, maxZoom) ==
  /\ minZoom >= 0 /\ minZoom <= MaxZoomLevel
  /\ maxZoom >= 0 /\ maxZoom <= MaxZoomLevel

isValidZoomRange(minZoom, maxZoom) ==
  /\ minZoom >= 0 /\ minZoom <= MaxZoomLevel
  /\ maxZoom >= 0 /\ maxZoom <= MaxZoomLevel
  /\ minZoom <= maxZoom

\* ------------------------------------------------------- tile store
getCacheKey(z, x, y, source) == <<source, z, x, y>>

CacheHas(c, key) == \E i \in 1..Len(c) : c[i].key = key

CacheIndex(c, key) == CHOOSE i \in 1..Len(c) : c[i].key = key

\* the keys of the cache
CachedKeys(c) == {e.key : e \in Range(c)}

\* a variant of Map.set that leaves a present key's entry as it is
CacheSetIfAbsent(c, key, data) ==
  IF CacheHas(c, key) THEN c ELSE Append(c, [key |-> key, data |-> data])

\* Map.set: a present key keeps its place, a new key goes last
CacheSet(c, key, data) ==
  IF CacheHas(c, key)
  THEN [c EXCEPT ![CacheIndex(c, key)] = [key |-> key, data |-> data]]
  ELSE Append(c, [key |-> key, data |-> data])

\* a variant that removes the newest entry
manageCacheSizeNewest(c) ==
  IF Len(c) >= maxCacheSize THEN SubSeq(c, 1, Len(c) - 1) ELSE c

\* a variant that evicts only once the cache is over its capacity
manageCacheSizeWhenOver(c) == IF Len(c) > maxCacheSize THEN Tail(c) ELSE c

manageCacheSize(c) == IF Len(c) >= maxCacheSize THEN Tail(c) ELSE c

\* a variant of getTile that makes room in the cache before it reads the table
getTileMakingRoom(c, t, z, x, y, source) ==
  LET key == getCacheKey(z, x, y, source)
  IN IF CacheHas(c, key)
     THEN LET data == c[CacheIndex(c, key)].data
          IN [found |-> TRUE, hit |-> TRUE, data |-> data,
              cache |-> Append(SelectSeq(c, LAMBDA e : e.key # key),
                               [key |-> key, data |-> data])]
     ELSE IF key \in DOMAIN t
     THEN [found |-> TRUE, hit |-> FALSE, data |-> t[key],
           cache |-> CacheSet(manageCacheSize(c), key, t[key])]
     ELSE [found |-> FALSE, hit |-> FALSE, data |-> "", cache |-> manageCacheSize(c)]

\* getTile: a cached key is deleted and set again, which moves it last; a key
\* of the table is read and cached; the result is [found, hit, data, cache],
\* found FALSE for the null answer, whose data is not read
getTile(c, t, z, x, y, source) ==
  LET key == getCacheKey(z, x, y, source)
  IN IF CacheHas(c, key)
     THEN LET data == c[CacheIndex(c, key)].data
          IN [found |-> TRUE, hit |-> TRUE, data |-> data,
              cache |-> Append(SelectSeq(c, LAMBDA e : e.key # key),
                               [key |-> key, data |-> data])]
     ELSE IF key \in DOMAIN t
     THEN [found |-> TRUE, hit |-> FALSE, data |-> t[key],
           cache |-> CacheSet(manageCacheSize(c), key, t[key])]
     ELSE [found |-> FALSE, hit |-> FALSE, data |-> "", cache |-> c]

hasTile(c, t, z, x, y, source) ==
  \/ CacheHas(c, getCacheKey(z, x, y, source))
  \/ getCacheKey(z, x, y, source) \in DOMAIN t

\* a variant of saveTile that writes the cache only
saveTileCacheOnly(c, t, z, x, y, source, data) ==
  [tiles |-> t,
   cache |-> CacheSet(manageCacheSize(c), getCacheKey(z, x, y, source), data)]

\* saveTile: INSERT OR REPLACE, then the cache; the result is [tiles, cache]
saveTile(c, t, z, x, y, source, data) ==
  LET key == getCacheKey(z, x, y, source)
  IN [tiles |-> With(Without(t, key), key, data),
      cache |-> CacheSet(manageCacheSize(c), key, data)]

\* a variant of deleteTile that leaves the cache alone
deleteTileRowOnly(c, t, z, x, y, source) ==
  [tiles |-> Without(t, getCacheKey(z, x, y, source)), cache |-> c]

\* deleteTile: DELETE the row, then cache.delete; the result is [tiles, cache]
deleteTile(c, t, z, x, y, source) ==
  LET key == getCacheKey(z, x, y, source)
  IN [tiles |-> Without(t, key),
      cache |-> SelectSeq(c, LAMBDA e : e.key # key)]

\* the rows statements.deleteTilesByJob removes for one zoom level
RowsInRange(t, source, z, minX, maxX, minY, maxY) ==
  {key \in DOMAIN t : /\ key[1] = source /\ key[2] = z
                       /\ key[3] >= minX /\ key[3] <= maxX
                       /\ key[4] >= minY /\ key[4] <= maxY}

\* what require('./TileCalculator.js') does in deleteTilesForJob: in an ES
\* module run by Node require is not defined and the call throws; in a build
\* that defines it the calculator is loaded
RequireOutcomes == {"ReferenceError", "loaded"}

\* deleteTilesForJob once the calculator is loaded: the rows of each zoom
\* level's rectangle, then every cache entry of the source; the result is
\* [tiles, cache, totalDeleted]
deleteTilesForJob(c, t, source, bounds, minZoom, maxZoom) ==
  LET removed == UNION {RowsInRange(t, source, tileBounds.z, tileBounds.minX,
                                    tileBounds.maxX, tileBounds.minY, tileBounds.maxY) :
                          tileBounds \in {getTileBounds(bounds, z) : z \in minZoom..maxZoom}}
  IN [tiles |-> [key \in DOMAIN t \ removed |-> t[key]],
      cache |-> SelectSeq(c, LAMBDA e : e.key[1] # source),
      totalDeleted |-> Cardinality(removed)]

\* ------------------------------------------------------ job registry
\* a variant that leaves the total of the row at 0
createDownloadJobUncounted(jobs, id, source, bounds, minZoom, maxZoom, totalTiles) ==
  With(jobs, id, [source |-> source, bounds |-> bounds, minZoom |-> minZoom,
                  maxZoom |-> maxZoom, totalTiles |-> 0,
                  downloadedTiles |-> 0, status |-> "pending"])

createDownloadJob(jobs, id, source, bounds, minZoom, maxZoom, totalTiles) ==
  With(jobs, id, [source |-> source, bounds |-> bounds, minZoom |-> minZoom,
                  maxZoom |-> maxZoom, totalTiles |-> totalTiles,
                  downloadedTiles |-> 0, status |-> "pending"])

updateJobProgress(jobs, id, downloadedTiles) ==
  IF id \in DOMAIN jobs THEN [jobs EXCEPT ![id].downloadedTiles = downloadedTiles]
  ELSE jobs

updateJobStatus(jobs, id, status) ==
  IF id \in DOMAIN jobs THEN [jobs EXCEPT ![id].status = status] ELSE jobs

updateJobZoomLevels(jobs, id, minZoom, maxZoom, totalTiles) ==
  IF id \in DOMAIN jobs
  THEN [jobs EXCEPT ![id].minZoom = minZoom, ![id].maxZoom = maxZoom,
                    ![id].totalTiles = totalTiles]
  ELSE jobs

\* ------------------------------------------------- download scheduler
\* The scheduler's fields, the registry it writes and the release history,
\* as one value the handlers below transform.
Downloader ==
  [queue |-> queue, activeDownloads |-> activeDownloads, inflight |-> inflight,
   since |-> sinceLastRequest, activeJobs |-> activeJobs,
   downloadStats |-> downloadStats, jobs |-> jobsTable, released |-> <<>>]

Install(d) ==
  /\ queue' = d.queue
  /\ activeDownloads' = d.activeDownloads
  /\ inflight' = d.inflight
  /\ sinceLastRequest' = d.since
  /\ activeJobs' = d.activeJobs
  /\ downloadStats' = d.downloadStats
  /\ jobsTable' = d.jobs

\* what the store's history does in a step that makes none of its calls
StoreHistoryIdle == UNCHANGED <<lastPut, lastGet, lastSave, lastDelete, lastHas, recency>>

\* what a step that does not call getTileBounds by itself leaves of that call
CalculatorIdle == UNCHANGED <<lastTileBounds, lastTileList>>

\* The history a step leaves: the plans and failures of the runs still active,
\* and what the step released.
RunHistory(d, plan, failed, orphans) ==
  /\ runPlan' = [j \in DOMAIN plan \cap DOMAIN d.activeJobs |-> plan[j]]
  /\ runFailed' = failed \cap DOMAIN d.activeJobs
  /\ released' = [j \in DOMAIN d.released |->
                    [stats |-> d.released[j].stats, how |-> d.released[j].how,
                     T |-> plan[j].T, K |-> plan[j].K, failed |-> j \in failed]]
  /\ orphanDone' = orphans

History(d, plan, failed, orphans) ==
  /\ RunHistory(d, plan, failed, orphans)
  /\ lastError' = "none"

IsActive(d, jobId) == jobId \in DOMAIN d.activeJobs /\ jobId \in DOMAIN d.downloadStats

Fetch(task, phase, rem) ==
  [jobId |-> task.jobId, source |-> task.source, z |-> task.z, x |-> task.x,
   y |-> task.y, phase |-> phase, rem |-> rem]

QueuedOf(q, jobId) == SelectSeq(q, LAMBDA task : task.jobId = jobId)

FetchesOf(fl, jobId) == {f \in BagToSet(fl) : f.jobId = jobId}

handleTileSkipped(d, jobId) ==
  IF jobId \in DOMAIN d.downloadStats
  THEN [d EXCEPT !.downloadStats[jobId].skippedCount = @ + 1]
  ELSE d

\* a variant that persists the count whether or not the job is active
handleTileDownloadedUnguarded(d, jobId) ==
  IF IsActive(d, jobId)
  THEN LET n == d.downloadStats[jobId].downloadedCount + 1
       IN [d EXCEPT !.activeJobs[jobId].downloadedTiles = @ + 1,
                    !.downloadStats[jobId].downloadedCount = n,
                    !.jobs = IF n % ProgressInterval = 0
                             THEN updateJobProgress(@, jobId, n) ELSE @]
  ELSE [d EXCEPT !.jobs = updateJobProgress(@, jobId, 1)]

handleTileDownloaded(d, jobId) ==
  IF IsActive(d, jobId)
  THEN LET n == d.downloadStats[jobId].downloadedCount + 1
       IN [d EXCEPT !.activeJobs[jobId].downloadedTiles = @ + 1,
                    !.downloadStats[jobId].downloadedCount = n,
                    !.jobs = IF n % ProgressInterval = 0
                             THEN updateJobProgress(@, jobId, n) ELSE @]
  ELSE d

\* a variant that gives up the job's queued tiles on a failure
handleTileFailedAborting(d, jobId) ==
  IF IsActive(d, jobId)
  THEN [d EXCEPT !.activeJobs[jobId].failedTiles = @ + 1,
                 !.downloadStats[jobId].failedCount = @ + 1,
                 !.queue = SelectSeq(@, LAMBDA task : task.jobId # jobId)]
  ELSE d

handleTileFailed(d, jobId) ==
  IF IsActive(d, jobId)
  THEN [d EXCEPT !.activeJobs[jobId].failedTiles = @ + 1,
                 !.downloadStats[jobId].failedCount = @ + 1]
  ELSE d

\* a variant that queues a tile without asking the store
queueTileAlways(d, jobId, source, z, x, y) ==
  [d EXCEPT !.queue = Append(@, [jobId |-> jobId, source |-> source,
                                 z |-> z, x |-> x, y |-> y])]

queueTile(d, jobId, source, z, x, y) ==
  IF hasTile(cache, tilesTable, z, x, y, source)
  THEN handleTileSkipped(d, jobId)
  ELSE [d EXCEPT !.queue = Append(@, [jobId |-> jobId, source |-> source,
                                      z |-> z, x |-> x, y |-> y])]

\* startJob's loop over the tile list
RECURSIVE QueueTiles(_, _, _, _)
QueueTiles(d, jobId, source, tiles) ==
  IF tiles = <<>> THEN d
  ELSE QueueTiles(queueTile(d, jobId, source, Head(tiles).z, Head(tiles).x, Head(tiles).y),
                  jobId, source, Tail(tiles))

\* downloadTile up to its first suspension: rateLimit() either stamps
\* lastRequestTime and the request goes out, or sets a timer for the rest of
\* the interval
downloadTile(d, task) ==
  IF d.since < minRequestInterval
  THEN [d EXCEPT !.inflight = @ (+) SetToBag({Fetch(task, "wait", minRequestInterval - d.since)})]
  ELSE [d EXCEPT !.inflight = @ (+) SetToBag({Fetch(task, "request", 0)}),
                 !.since = 0]

\* a variant of the loop guard that admits one fetch more
CanStartInclusive(n, q) == n <= maxConcurrent /\ Len(q) > 0

\* the guard of processQueue's while loop
CanStart(n, q) == n < maxConcurrent /\ Len(q) > 0

RECURSIVE StartDownloads(_)
StartDownloads(d) ==
  IF CanStart(d.activeDownloads, d.queue)
  THEN StartDownloads(downloadTile([d EXCEPT !.queue = Tail(@),
                                             !.activeDownloads = @ + 1],
                                   Head(d.queue)))
  ELSE d

Accounted(stats) == stats.downloadedCount + stats.failedCount + stats.skippedCount

FinalStatus(stats) ==
  IF stats.failedCount > 0 THEN "completed_with_errors" ELSE "completed"

\* a variant that leaves the registry's progress as the last interval wrote it
completeJobWithoutFlush(d, jobId) ==
  IF ~IsActive(d, jobId) THEN d
  ELSE LET stats == d.downloadStats[jobId]
       IN [d EXCEPT !.jobs = updateJobStatus(@, jobId, FinalStatus(stats)),
                    !.activeJobs = Without(@, jobId),
                    !.downloadStats = Without(@, jobId),
                    !.released = With(@, jobId, [stats |-> stats, how |-> "completed"])]

completeJob(d, jobId) ==
  IF ~IsActive(d, jobId) THEN d
  ELSE LET stats == d.downloadStats[jobId]
       IN [d EXCEPT !.jobs = updateJobStatus(
                                updateJobProgress(@, jobId, stats.downloadedCount),
                                jobId, FinalStatus(stats)),
                    !.activeJobs = Without(@, jobId),
                    !.downloadStats = Without(@, jobId),
                    !.released = With(@, jobId, [stats |-> stats, how |-> "completed"])]

\* the condition of processQueue's completion scan
JobIsComplete(d, jobId) ==
  /\ Accounted(d.downloadStats[jobId]) >= d.activeJobs[jobId].totalTiles
  /\ d.activeDownloads = 0

RECURSIVE CompleteJobs(_, _)
CompleteJobs(d, todo) ==
  IF todo = {} THEN d
  ELSE LET jobId == CHOOSE j \in todo : TRUE
       IN CompleteJobs(IF JobIsComplete(d, jobId) THEN completeJob(d, jobId) ELSE d,
                       todo \ {jobId})

\* a variant without the completion scan
processQueueWithoutScan(d) == StartDownloads(d)

processQueue(d) ==
  LET started == StartDownloads(d)
  IN CompleteJobs(started, DOMAIN started.activeJobs)

startJob(d, jobId, source, tiles) ==
  LET registered ==
        [d EXCEPT !.activeJobs = With(@, jobId,
                     [source |-> source, totalTiles |-> Len(tiles),
                      downloadedTiles |-> 0, failedTiles |-> 0, status |-> "running"]),
                  !.downloadStats = With(@, jobId,
                     [downloadedCount |-> 0, failedCount |-> 0, skippedCount |-> 0]),
                  !.jobs = updateJobStatus(@, jobId, "running")]
  IN processQueue(QueueTiles(registered, jobId, source, tiles))

\* a variant that does not ask whether the job is active
cancelJobOfAny(d, jobId) ==
  [d EXCEPT !.queue = SelectSeq(@, LAMBDA task : task.jobId # jobId),
            !.jobs = updateJobStatus(@, jobId, "cancelled"),
            !.released = IF jobId \in DOMAIN d.downloadStats
                         THEN With(@, jobId, [stats |-> d.downloadStats[jobId],
                                              how |-> "cancelled"])
                         ELSE @,
            !.activeJobs = Without(@, jobId),
            !.downloadStats = Without(@, jobId)]

\* a variant that leaves the job's tiles in the queue
cancelJobKeepingQueue(d, jobId) ==
  IF jobId \notin DOMAIN d.activeJobs THEN d
  ELSE [d EXCEPT !.jobs = updateJobStatus(@, jobId, "cancelled"),
                 !.released = IF jobId \in DOMAIN d.downloadStats
                              THEN With(@, jobId, [stats |-> d.downloadStats[jobId],
                                                   how |-> "cancelled"])
                              ELSE @,
                 !.activeJobs = Without(@, jobId),
                 !.downloadStats = Without(@, jobId)]

\* a variant that leaves the status of the registry row as it is
cancelJobKeepingStatus(d, jobId) ==
  IF jobId \notin DOMAIN d.activeJobs THEN d
  ELSE [d EXCEPT !.queue = SelectSeq(@, LAMBDA task : task.jobId # jobId),
                 !.released = IF jobId \in DOMAIN d.downloadStats
                              THEN With(@, jobId, [stats |-> d.downloadStats[jobId],
                                                   how |-> "cancelled"])
                              ELSE @,
                 !.activeJobs = Without(@, jobId),
                 !.downloadStats = Without(@, jobId)]

cancelJob(d, jobId) ==
  IF jobId \notin DOMAIN d.activeJobs THEN d
  ELSE [d EXCEPT !.queue = SelectSeq(@, LAMBDA task : task.jobId # jobId),
                 !.jobs = updateJobStatus(@, jobId, "cancelled"),
                 !.released = IF jobId \in DOMAIN d.downloadStats
                              THEN With(@, jobId, [stats |-> d.downloadStats[jobId],
                                                   how |-> "cancelled"])
                              ELSE @,
                 !.activeJobs = Without(@, jobId),
                 !.downloadStats = Without(@, jobId)]

\* Math.round of the quotient n / d of naturals, d > 0: halves go up
Round(n, d) == (2 * n + d) \div (2 * d)

\* the null a status query returns for a job it does not know
Null == [null |-> TRUE]

\* TileDownloader.getJobStatus: the live counters, or null
liveJobStatus(jobId) ==
  IF jobId \notin DOMAIN activeJobs \/ jobId \notin DOMAIN downloadStats THEN Null
  ELSE LET job == activeJobs[jobId]
           stats == downloadStats[jobId]
       IN [totalTiles |-> job.totalTiles,
           downloadedTiles |-> stats.downloadedCount,
           skippedTiles |-> stats.skippedCount,
           failedTiles |-> stats.failedCount,
           progress |-> IF job.totalTiles > 0
                        THEN Round(Accounted(stats) * 100, job.totalTiles) ELSE 0,
           status |-> job.status,
           queuedTiles |-> Len(QueuedOf(queue, jobId))]

\* a variant that asks the registry first
getJobStatusRegistryFirst(jobId) ==
  IF jobId \in DOMAIN jobsTable
  THEN [totalTiles |-> jobsTable[jobId].totalTiles,
        downloadedTiles |-> jobsTable[jobId].downloadedTiles,
        progress |-> IF jobsTable[jobId].totalTiles > 0
                     THEN Round(jobsTable[jobId].downloadedTiles * 100,
                                jobsTable[jobId].totalTiles)
                     ELSE 0,
        minZoom |-> jobsTable[jobId].minZoom,
        maxZoom |-> jobsTable[jobId].maxZoom,
        source |-> jobsTable[jobId].source,
        status |-> jobsTable[jobId].status]
  ELSE liveJobStatus(jobId)

\* TileForge.getJobStatus: the live status first, then the registry row
getJobStatus(jobId) ==
  IF liveJobStatus(jobId) # Null THEN liveJobStatus(jobId)
  ELSE IF jobId \in DOMAIN jobsTable
       THEN [totalTiles |-> jobsTable[jobId].totalTiles,
             downloadedTiles |-> jobsTable[jobId].downloadedTiles,
             progress |-> IF jobsTable[jobId].totalTiles > 0
                          THEN Round(jobsTable[jobId].downloadedTiles * 100,
                                     jobsTable[jobId].totalTiles)
                          ELSE 0,
             minZoom |-> jobsTable[jobId].minZoom,
             maxZoom |-> jobsTable[jobId].maxZoom,
             source |-> jobsTable[jobId].source,
             status |-> jobsTable[jobId].status]
       ELSE Null

\* ------------------------------------------------------------ actions
TypeOK ==
  /\ activeDownloads \in Nat
  /\ sinceLastRequest \in 0..minRequestInterval
  /\ DOMAIN activeJobs \subseteq JobIds
  /\ DOMAIN jobsTable \subseteq JobIds
  /\ failures \in 0..MaxFailures
  /\ runsStarted \in 0..MaxRuns

Init ==
  /\ queue = <<>>
  /\ activeDownloads = 0
  /\ activeJobs = <<>>
  /\ downloadStats = <<>>
  /\ sinceLastRequest = minRequestInterval
  /\ inflight = EmptyBag
  /\ jobsTable = <<>>
  /\ tilesTable = <<>>
  /\ cache = <<>>
  /\ nextJobId = 1
  /\ runsStarted = 0
  /\ failures = 0
  /\ runPlan = <<>>
  /\ runFailed = {}
  /\ released = <<>>
  /\ orphanDone = {}
  /\ lastError = "none"
  /\ lastPut = tilesTable
  /\ lastGet = Null
  /\ lastSave = Null
  /\ lastDelete = Null
  /\ lastHas = Null
  /\ recency = <<>>
  /\ lastTileBounds = Null
  /\ lastTileList = Null
  /\ lastCancel = Null
  /\ zoomsCovered = [j \in DOMAIN jobsTable |-> jobsTable[j].minZoom..jobsTable[j].maxZoom]

\* the tiles of a run that the store holds when the run starts
ExistingTiles(source, tiles) ==
  {i \in 1..Len(tiles) : hasTile(cache, tilesTable, tiles[i].z, tiles[i].x, tiles[i].y, source)}

RunPlan(source, tiles) ==
  [T |-> Len(tiles), K |-> Cardinality(ExistingTiles(source, tiles))]

\* a call that throws before it has written anything
Throw(error) ==
  /\ lastError' = error
  /\ released' = <<>>
  /\ orphanDone' = {}
  /\ lastCancel' = Null
  /\ StoreHistoryIdle /\ CalculatorIdle /\ UNCHANGED zoomsCovered
  /\ UNCHANGED <<queue, activeDownloads, activeJobs, downloadStats, sinceLastRequest,
                 inflight, jobsTable, tilesTable, cache, nextJobId, runsStarted,
                 failures, runPlan, runFailed>>

\* the validation of TileForge.download: the error it throws, or "none"
DownloadError(source, bounds, minZoom, maxZoom) ==
  IF ~isValidSource(source) THEN "Invalid tile source"
  ELSE IF ~isValidBounds(bounds) THEN "Invalid bounds"
  ELSE IF ~isValidZoomRange(minZoom, maxZoom) THEN "Invalid zoom range"
  ELSE "none"

\* what TileForge.download returns when it does not throw
DownloadResult(source, bounds, minZoom, maxZoom) ==
  [jobId |-> nextJobId, source |-> source,
   totalTiles |-> Len(getTileList(bounds, minZoom, maxZoom)), status |-> "running"]

\* TileForge.estimate for arguments it does not refuse: the tile count, and
\* the size in MB and the time in minutes in hundredths, of 15 KB and half a
\* second a tile
estimate(bounds, minZoom, maxZoom) ==
  LET tileCount == calculateTileCount(bounds, minZoom, maxZoom)
  IN [tileCount |-> tileCount,
      estimatedSizeMB |-> Round(tileCount * 15 * 100, 1024),
      estimatedTimeMinutes |-> Round(tileCount * 100, 120)]

\* TileForge.download
Download(source, bounds, minZoom, maxZoom) ==
  IF DownloadError(source, bounds, minZoom, maxZoom) # "none"
  THEN Throw(DownloadError(source, bounds, minZoom, maxZoom))
  ELSE
  /\ runsStarted < MaxRuns
  /\ LET tiles == getTileList(bounds, minZoom, maxZoom)
         jobId == nextJobId
         created == createDownloadJob(jobsTable, jobId, source, bounds, minZoom,
                                      maxZoom, Len(tiles))
     IN \E d \in {startJob([Downloader EXCEPT !.jobs = created], jobId, source, tiles)} :
          /\ Install(d)
          /\ History(d, With(runPlan, jobId, RunPlan(source, tiles)),
                     runFailed \ {jobId}, {})
  /\ nextJobId' = nextJobId + 1
  /\ runsStarted' = runsStarted + 1
  /\ zoomsCovered' = With(zoomsCovered, nextJobId, minZoom..maxZoom)
  /\ StoreHistoryIdle /\ CalculatorIdle
  /\ lastCancel' = Null
  /\ UNCHANGED <<tilesTable, cache, failures>>

\* the validation of TileForge.extendJob: the error it throws, or "none"
ExtendJobError(jobId, minZoom, maxZoom) ==
  IF jobId \notin DOMAIN jobsTable THEN "Job not found"
  ELSE IF ~isValidZoomRange(minZoom, maxZoom) THEN "Invalid zoom range"
  ELSE "none"

\* TileForge.extendJob
ExtendJob(jobId, minZoom, maxZoom) ==
  IF ExtendJobError(jobId, minZoom, maxZoom) # "none"
  THEN Throw(ExtendJobError(jobId, minZoom, maxZoom))
  ELSE
  /\ runsStarted < MaxRuns
  /\ LET job == jobsTable[jobId]
         tiles == getTileList(job.bounds, minZoom, maxZoom)
         updated == updateJobStatus(
                      updateJobZoomLevels(jobsTable, jobId, minZoom, maxZoom, Len(tiles)),
                      jobId, "running")
     IN \E d \in {startJob([Downloader EXCEPT !.jobs = updated], jobId, job.source, tiles)} :
          /\ Install(d)
          /\ History(d, With(runPlan, jobId, RunPlan(job.source, tiles)),
                     runFailed \ {jobId}, {})
  /\ runsStarted' = runsStarted + 1
  /\ zoomsCovered' = [zoomsCovered EXCEPT ![jobId] = @ \cup (minZoom..maxZoom)]
  /\ StoreHistoryIdle /\ CalculatorIdle
  /\ lastCancel' = Null
  /\ UNCHANGED <<tilesTable, cache, nextJobId, failures>>

\* what cancelJob returns: whether the job was active
CancelJobResult(jobId) == jobId \in DOMAIN activeJobs

\* TileForge.cancelJob; it returns whether the job was active
CancelJob(jobId) ==
  /\ \E d \in {cancelJob(Downloader, jobId)} :
       /\ Install(d)
       /\ History(d, runPlan, runFailed, {})
  /\ lastCancel' = [jobId |-> jobId, result |-> CancelJobResult(jobId)]
  /\ StoreHistoryIdle /\ CalculatorIdle /\ UNCHANGED zoomsCovered
  /\ UNCHANGED <<tilesTable, cache, nextJobId, runsStarted, failures>>

\* one clock tick: every running timer and the time since the last stamp advance
TickFetch(f) == IF f.phase = "wait" /\ f.rem > 0 THEN [f EXCEPT !.rem = @ - 1] ELSE f

Tick ==
  /\ \/ sinceLastRequest < minRequestInterval
     \/ \E f \in BagToSet(inflight) : f.phase = "wait" /\ f.rem > 0
  /\ \A f \in BagToSet(inflight) : ~(f.phase = "wait" /\ f.rem = 0)
  /\ sinceLastRequest' = Min(sinceLastRequest + 1, minRequestInterval)
  /\ inflight' = BagOfAll(TickFetch, inflight)
  /\ released' = <<>>
  /\ orphanDone' = {}
  /\ lastError' = "none"
  /\ lastCancel' = Null
  /\ StoreHistoryIdle /\ CalculatorIdle /\ UNCHANGED zoomsCovered
  /\ UNCHANGED <<queue, activeDownloads, activeJobs, downloadStats, jobsTable,
                 tilesTable, cache, nextJobId, runsStarted, failures, runPlan,
                 runFailed>>

\* rateLimit after its timer: stamp lastRequestTime, and the request goes out
RateLimitWake(f) ==
  /\ BagIn(f, inflight)
  /\ f.phase = "wait" /\ f.rem = 0
  /\ inflight' = (inflight (-) SetToBag({f})) (+) SetToBag({[f EXCEPT !.phase = "request"]})
  /\ sinceLastRequest' = 0
  /\ released' = <<>>
  /\ orphanDone' = {}
  /\ lastError' = "none"
  /\ lastCancel' = Null
  /\ StoreHistoryIdle /\ CalculatorIdle /\ UNCHANGED zoomsCovered
  /\ UNCHANGED <<queue, activeDownloads, activeJobs, downloadStats, jobsTable,
                 tilesTable, cache, nextJobId, runsStarted, failures, runPlan,
                 runFailed>>

\* a variant that goes on without giving the slot back
FetchSettledKeepingSlot(d, f) ==
  processQueue([d EXCEPT !.inflight = @ (-) SetToBag({f})])

\* the .then of processQueue: release the slot and go on
FetchSettled(d, f) ==
  processQueue([d EXCEPT !.inflight = @ (-) SetToBag({f}),
                         !.activeDownloads = @ - 1])

\* the response is 200 with data
FetchSucceeds(f, data) ==
  /\ BagIn(f, inflight)
  /\ f.phase = "request"
  /\ LET saved == saveTile(cache, tilesTable, f.z, f.x, f.y, f.source, data)
     IN /\ tilesTable' = saved.tiles
        /\ cache' = saved.cache
  /\ lastPut' = With(Without(lastPut, getCacheKey(f.z, f.x, f.y, f.source)),
                     getCacheKey(f.z, f.x, f.y, f.source), data)
  /\ \E d \in {FetchSettled(handleTileDownloaded(Downloader, f.jobId), f)} :
       /\ Install(d)
       /\ History(d, runPlan, runFailed, {f.jobId} \ DOMAIN activeJobs)
  /\ lastCancel' = Null
  /\ UNCHANGED <<nextJobId, runsStarted, failures, lastGet, lastSave, lastDelete,
                 lastHas, recency, zoomsCovered, lastTileBounds, lastTileList>>

\* the active run a failed fetch belongs to: the job's, if the tile is of the
\* zoom levels the job now covers
FailedRunOf(f) ==
  {j \in {f.jobId} \cap DOMAIN activeJobs \cap DOMAIN jobsTable :
     f.z \in jobsTable[j].minZoom..jobsTable[j].maxZoom}

\* a transport error, a timeout or a status other than 200
FetchFails(f) ==
  /\ failures < MaxFailures
  /\ BagIn(f, inflight)
  /\ f.phase = "request"
  /\ failures' = failures + 1
  /\ \E d \in {FetchSettled(handleTileFailed(Downloader, f.jobId), f)} :
       /\ Install(d)
       /\ History(d, runPlan, runFailed \cup FailedRunOf(f),
                  {f.jobId} \ DOMAIN activeJobs)
  /\ lastCancel' = Null
  /\ StoreHistoryIdle /\ CalculatorIdle /\ UNCHANGED zoomsCovered
  /\ UNCHANGED <<tilesTable, cache, nextJobId, runsStarted>>

\* the response is 200 with data and saveTile throws (the INSERT fails): the
\* throw is inside downloadTile's try, so its catch runs as for a failed fetch
SaveTileFails(f, data) == FetchFails(f)

Next ==
  \/ \E source \in Sources, bounds \in BoundsInputs, zz \in ZoomInputs :
       Download(source, bounds, zz[1], zz[2])
  \/ \E jobId \in DOMAIN jobsTable, zz \in ZoomInputs : ExtendJob(jobId, zz[1], zz[2])
  \/ \E jobId \in JobIds : CancelJob(jobId)
  \/ Tick
  \/ \E f \in BagToSet(inflight) : RateLimitWake(f)
  \/ \E f \in BagToSet(inflight), data \in ResponseBytes : FetchSucceeds(f, data)
  \/ \E f \in BagToSet(inflight) : FetchFails(f)
  \/ \E f \in BagToSet(inflight), data \in ResponseBytes : SaveTileFails(f, data)

Spec == Init /\ [][Next]_vars

\* a fetch in flight gets its answer
FetchFinishes ==
  \E f \in BagToSet(inflight) :
    \/ \E data \in ResponseBytes : FetchSucceeds(f, data)
    \/ FetchFails(f)

\* the calls over two zoom ranges, of one tile and of two
LiveZoomInputs == {<<0, 0>>, <<1, 1>>}

NextLive ==
  \/ \E source \in Sources, bounds \in BoundsInputs, zz \in LiveZoomInputs :
       Download(source, bounds, zz[1], zz[2])
  \/ \E jobId \in DOMAIN jobsTable, zz \in LiveZoomInputs : ExtendJob(jobId, zz[1], zz[2])
  \/ \E jobId \in JobIds : CancelJob(jobId)
  \/ Tick
  \/ \E f \in BagToSet(inflight) : RateLimitWake(f)
  \/ \E f \in BagToSet(inflight), data \in ResponseBytes : FetchSucceeds(f, data)
  \/ \E f \in BagToSet(inflight) : FetchFails(f)

\* Time passes, a timer that is due fires, and every request is answered or
\* times out (axios timeout).
SpecLive ==
  /\ Init /\ [][NextLive]_vars
  /\ WF_vars(Tick)
  /\ WF_vars(\E f \in BagToSet(inflight) : RateLimitWake(f))
  /\ WF_vars(FetchFinishes)

\* one job over a zoom range of more tiles than a progress interval, which
\* runs to its end or is cancelled
NextBulk ==
  \/ \E source \in Sources, bounds \in BoundsInputs, zz \in BulkZoomInputs :
       runsStarted = 0 /\ Download(source, bounds, zz[1], zz[2])
  \/ \E jobId \in JobIds : CancelJob(jobId)
  \/ Tick
  \/ \E f \in BagToSet(inflight) : RateLimitWake(f)
  \/ \E f \in BagToSet(inflight), data \in ResponseBytes : FetchSucceeds(f, data)
  \/ \E f \in BagToSet(inflight) : FetchFails(f)

SpecBulk == Init /\ [][NextBulk]_vars

\* The program constructed over a database an earlier process has left: job 1
\* completed over zoom 0..0, its tile is stored, and so is any part of the
\* tiles of zoom 1 (the tiles of a job since deleted without its tiles). The
\* earlier run counts as one of the runs.
RestartJob(source, bounds) ==
  [source |-> source, bounds |-> bounds, minZoom |-> 0, maxZoom |-> 0,
   totalTiles |-> Len(getTileList(bounds, 0, 0)),
   downloadedTiles |-> Len(getTileList(bounds, 0, 0)), status |-> "completed"]

InitRestart ==
  /\ queue = <<>>
  /\ activeDownloads = 0
  /\ activeJobs = <<>>
  /\ downloadStats = <<>>
  /\ sinceLastRequest = minRequestInterval
  /\ inflight = EmptyBag
  /\ \E source \in Sources, bounds \in BoundsInputs :
       /\ jobsTable = (1 :> RestartJob(source, bounds))
       /\ \E kept \in SUBSET Range(getTileList(bounds, 1, 1)), data \in ResponseBytes :
            tilesTable = [key \in {getCacheKey(t.z, t.x, t.y, source) :
                                     t \in Range(getTileList(bounds, 0, 0)) \cup kept}
                            |-> data]
  /\ cache = <<>>
  /\ nextJobId = 2
  /\ runsStarted = 1
  /\ failures = 0
  /\ runPlan = <<>>
  /\ runFailed = {}
  /\ released = <<>>
  /\ orphanDone = {}
  /\ lastError = "none"
  /\ lastPut = tilesTable
  /\ lastGet = Null
  /\ lastSave = Null
  /\ lastDelete = Null
  /\ lastHas = Null
  /\ recency = <<>>
  /\ lastTileBounds = Null
  /\ lastTileList = Null
  /\ lastCancel = Null
  /\ zoomsCovered = [j \in DOMAIN jobsTable |-> jobsTable[j].minZoom..jobsTable[j].maxZoom]

SpecRestart == InitRestart /\ [][Next]_vars

\* TileForge.deleteJob of a job of the registry: cancel, then the tiles of the
\* stored bounds and zoom range if asked for, then the row; when
\* deleteTilesForJob throws, the cancellation stays and the row is not deleted
DeleteJob(jobId, deleteTiles) ==
  /\ jobId \in DOMAIN jobsTable
  /\ \E outcome \in IF deleteTiles THEN RequireOutcomes ELSE {"skipped"},
        d \in {cancelJob(Downloader, jobId)} :
       IF outcome = "ReferenceError"
       THEN /\ Install(d)
            /\ RunHistory(d, runPlan, runFailed, {})
            /\ lastError' = outcome
            /\ StoreHistoryIdle
            /\ UNCHANGED <<tilesTable, cache, zoomsCovered>>
       ELSE \E gone \in {IF outcome = "loaded"
                         THEN deleteTilesForJob(cache, tilesTable, jobsTable[jobId].source,
                                                jobsTable[jobId].bounds,
                                                jobsTable[jobId].minZoom,
                                                jobsTable[jobId].maxZoom)
                         ELSE [tiles |-> tilesTable, cache |-> cache, totalDeleted |-> 0]} :
              /\ Install([d EXCEPT !.jobs = Without(@, jobId)])
              /\ History(d, runPlan, runFailed, {})
              /\ tilesTable' = gone.tiles
              /\ cache' = gone.cache
              /\ lastPut' = [key \in DOMAIN lastPut \cap DOMAIN gone.tiles |-> lastPut[key]]
              /\ recency' = SelectSeq(recency, LAMBDA k : k \in DOMAIN gone.tiles)
              /\ lastDelete' = [source |-> jobsTable[jobId].source, before |-> tilesTable,
                                cachedBefore |-> CachedKeys(cache),
                                removed |-> DOMAIN tilesTable \ DOMAIN gone.tiles,
                                totalDeleted |-> gone.totalDeleted,
                                jobId |-> jobId, deleteTiles |-> deleteTiles]
              /\ zoomsCovered' = Without(zoomsCovered, jobId)
              /\ UNCHANGED <<lastGet, lastSave, lastHas>>
  /\ CalculatorIdle
  /\ lastCancel' = Null
  /\ UNCHANGED <<nextJobId, runsStarted, failures>>

NextDelete ==
  \/ \E source \in Sources, bounds \in BoundsInputs, zz \in ZoomInputs :
       Download(source, bounds, zz[1], zz[2])
  \/ \E jobId \in DOMAIN jobsTable, zz \in ZoomInputs : ExtendJob(jobId, zz[1], zz[2])
  \/ Tick
  \/ \E f \in BagToSet(inflight) : RateLimitWake(f)
  \/ \E f \in BagToSet(inflight), data \in ResponseBytes : FetchSucceeds(f, data)
  \/ \E jobId \in DOMAIN jobsTable, deleteTiles \in BOOLEAN : DeleteJob(jobId, deleteTiles)

SpecDelete == Init /\ [][NextDelete]_vars

\* every call of the facade that starts, extends, cancels or deletes a job,
\* with the fetches' answers
NextFacade ==
  \/ \E source \in Sources, bounds \in BoundsInputs, zz \in LiveZoomInputs :
       Download(source, bounds, zz[1], zz[2])
  \/ \E jobId \in DOMAIN jobsTable, zz \in LiveZoomInputs : ExtendJob(jobId, zz[1], zz[2])
  \/ \E jobId \in JobIds : CancelJob(jobId)
  \/ \E jobId \in DOMAIN jobsTable, deleteTiles \in BOOLEAN : DeleteJob(jobId, deleteTiles)
  \/ Tick
  \/ \E f \in BagToSet(inflight) : RateLimitWake(f)
  \/ \E f \in BagToSet(inflight), data \in ResponseBytes : FetchSucceeds(f, data)
  \/ \E f \in BagToSet(inflight) : FetchFails(f)

SpecFacade == Init /\ [][NextFacade]_vars

\* The calculator used by itself: getTileBounds, at every zoom level, of the
\* bounds isValidBounds accepts, up to its limits
LatitudeInputs == {MaxLatitude, 60000000, 0, -MaxLatitude}

LongitudeInputs == {-MaxLongitude, 90000000, MaxLongitude}

TileBoundsInputs ==
  {b \in [north : LatitudeInputs, south : LatitudeInputs,
          east : LongitudeInputs, west : LongitudeInputs] : isValidBounds(b)}

GetTileBounds(bounds, zoom) ==
  /\ lastTileBounds' = [bounds |-> bounds, zoom |-> zoom,
                        result |-> getTileBounds(bounds, zoom)]
  /\ UNCHANGED <<queue, activeDownloads, activeJobs, downloadStats, sinceLastRequest,
                 inflight, jobsTable, tilesTable, cache, nextJobId, runsStarted,
                 failures, runPlan, runFailed, released, orphanDone, lastError,
                 zoomsCovered, lastTileList, lastCancel>>
  /\ StoreHistoryIdle

NextTileBounds ==
  \E bounds \in TileBoundsInputs, zoom \in 0..MaxZoomLevel : GetTileBounds(bounds, zoom)

SpecTileBounds == Init /\ [][NextTileBounds]_vars

\* The calculator's two ways to the tiles of a region: getTileList and
\* calculateTileCount, of the valid bounds and the zoom ranges within 0..2
ListZoomInputs == {zz \in (0..2) \X (0..2) : isValidZoomRange(zz[1], zz[2])}

CalculatorAlone ==
  /\ UNCHANGED <<queue, activeDownloads, activeJobs, downloadStats, sinceLastRequest,
                 inflight, jobsTable, tilesTable, cache, nextJobId, runsStarted,
                 failures, runPlan, runFailed, released, orphanDone, lastError,
                 zoomsCovered, lastTileBounds, lastCancel>>
  /\ StoreHistoryIdle

GetTileList(bounds, minZoom, maxZoom) ==
  /\ lastTileList' = [call |-> "getTileList", bounds |-> bounds, minZoom |-> minZoom,
                      maxZoom |-> maxZoom,
                      tiles |-> getTileList(bounds, minZoom, maxZoom), count |-> 0]
  /\ CalculatorAlone

CalculateTileCount(bounds, minZoom, maxZoom) ==
  /\ lastTileList' = [call |-> "calculateTileCount", bounds |-> bounds,
                      minZoom |-> minZoom, maxZoom |-> maxZoom, tiles |-> <<>>,
                      count |-> calculateTileCount(bounds, minZoom, maxZoom)]
  /\ CalculatorAlone

NextTileList ==
  \/ \E bounds \in TileBoundsInputs, zz \in ListZoomInputs :
       GetTileList(bounds, zz[1], zz[2])
  \/ \E bounds \in TileBoundsInputs, zz \in ListZoomInputs :
       CalculateTileCount(bounds, zz[1], zz[2])

SpecTileList == Init /\ [][NextTileList]_vars

\* The tile store used by itself: saveTile, getTile and hasTile calls on a few keys
StoreSources == {"arcgis", "google"}

StoreTiles == {[z |-> 1, x |-> 0, y |-> 0], [z |-> 1, x |-> 1, y |-> 0]}

StoreBytes == ResponseBytes \cup {"png"}

\* the access order after a call touched key
Touch(r, key) == Append(SelectSeq(r, LAMBDA k : k # key), key)

\* what the scheduler's variables do in a step of the store alone
SchedulerIdle ==
  UNCHANGED <<queue, activeDownloads, activeJobs, downloadStats, sinceLastRequest,
              inflight, jobsTable, nextJobId, runsStarted, failures, runPlan,
              runFailed, released, orphanDone, zoomsCovered,
              lastTileBounds, lastTileList, lastCancel>>

SaveTile(z, x, y, source, data) ==
  /\ LET saved == saveTile(cache, tilesTable, z, x, y, source, data)
     IN /\ tilesTable' = saved.tiles
        /\ cache' = saved.cache
  /\ lastPut' = With(Without(lastPut, getCacheKey(z, x, y, source)),
                     getCacheKey(z, x, y, source), data)
  /\ recency' = Touch(recency, getCacheKey(z, x, y, source))
  /\ lastSave' = [key |-> getCacheKey(z, x, y, source), data |-> data,
                  existed |-> getCacheKey(z, x, y, source) \in DOMAIN tilesTable,
                  cached |-> CacheHas(cache, getCacheKey(z, x, y, source)),
                  cachedBefore |-> {e.key : e \in Range(cache)}]
  /\ lastGet' = Null /\ lastHas' = Null /\ lastDelete' = Null /\ lastError' = "none"
  /\ SchedulerIdle

GetTile(z, x, y, source) ==
  /\ LET got == getTile(cache, tilesTable, z, x, y, source)
     IN /\ cache' = got.cache
        /\ lastGet' = [key |-> getCacheKey(z, x, y, source), found |-> got.found,
                       hit |-> got.hit, data |-> got.data]
        /\ recency' = IF got.found THEN Touch(recency, getCacheKey(z, x, y, source))
                      ELSE recency
  /\ lastSave' = Null /\ lastHas' = Null /\ lastDelete' = Null /\ lastError' = "none"
  /\ UNCHANGED <<tilesTable, lastPut>>
  /\ SchedulerIdle

HasTile(z, x, y, source) ==
  /\ lastHas' = [key |-> getCacheKey(z, x, y, source),
                 result |-> hasTile(cache, tilesTable, z, x, y, source)]
  /\ recency' = IF CacheHas(cache, getCacheKey(z, x, y, source))
                THEN Touch(recency, getCacheKey(z, x, y, source))
                ELSE recency
  /\ lastGet' = Null /\ lastSave' = Null /\ lastDelete' = Null /\ lastError' = "none"
  /\ UNCHANGED <<tilesTable, cache, lastPut>>
  /\ SchedulerIdle

NextStore ==
  \/ \E t \in StoreTiles, source \in StoreSources, data \in StoreBytes :
       SaveTile(t.z, t.x, t.y, source, data)
  \/ \E t \in StoreTiles, source \in StoreSources : GetTile(t.z, t.x, t.y, source)
  \/ \E t \in StoreTiles, source \in StoreSources : HasTile(t.z, t.x, t.y, source)

SpecStore == Init /\ [][NextStore]_vars

\* Filling an empty store: puts of capacity + 1 distinct tiles, then a get
FillTile(z, x, y, source, data) ==
  /\ Cardinality(DOMAIN lastPut) <= maxCacheSize
  /\ getCacheKey(z, x, y, source) \notin DOMAIN lastPut
  /\ SaveTile(z, x, y, source, data)

GetAfterFill(z, x, y, source) ==
  /\ Cardinality(DOMAIN lastPut) = maxCacheSize + 1
  /\ lastGet = Null
  /\ GetTile(z, x, y, source)

NextFill ==
  \/ \E t \in StoreTiles, source \in StoreSources, data \in StoreBytes :
       FillTile(t.z, t.x, t.y, source, data)
  \/ \E t \in StoreTiles, source \in StoreSources : GetAfterFill(t.z, t.x, t.y, source)

SpecFill == Init /\ [][NextFill]_vars

\* The tile store with its deletions, on keys of two sources, two zoom levels
\* and two positions
DeleteKeys ==
  {[source |-> "arcgis", z |-> 1, x |-> 1, y |-> 0],
   [source |-> "arcgis", z |-> 1, x |-> 0, y |-> 0],
   [source |-> "arcgis", z |-> 0, x |-> 0, y |-> 0],
   [source |-> "google", z |-> 1, x |-> 1, y |-> 0]}

DeleteZoomInputs == {<<1, 1>>, <<0, 1>>}

DeleteTile(z, x, y, source) ==
  /\ \E gone \in {deleteTile(cache, tilesTable, z, x, y, source)} :
        /\ tilesTable' = gone.tiles
        /\ cache' = gone.cache
        /\ lastPut' = Without(lastPut, getCacheKey(z, x, y, source))
        /\ recency' = SelectSeq(recency, LAMBDA k : k # getCacheKey(z, x, y, source))
        /\ lastDelete' = [source |-> source, before |-> tilesTable,
                          cachedBefore |-> CachedKeys(cache),
                          removed |-> {getCacheKey(z, x, y, source)} \cap DOMAIN tilesTable,
                          totalDeleted |-> Cardinality({getCacheKey(z, x, y, source)}
                                                       \cap DOMAIN tilesTable)]
  /\ lastGet' = Null /\ lastSave' = Null /\ lastHas' = Null /\ lastError' = "none"
  /\ SchedulerIdle

DeleteTilesForJob(source, bounds, minZoom, maxZoom) ==
  \E outcome \in RequireOutcomes :
    /\ IF outcome = "loaded"
       THEN \E gone \in {deleteTilesForJob(cache, tilesTable, source, bounds,
                                            minZoom, maxZoom)} :
               /\ tilesTable' = gone.tiles
               /\ cache' = gone.cache
               /\ lastPut' = [key \in DOMAIN lastPut \cap DOMAIN gone.tiles |-> lastPut[key]]
               /\ recency' = SelectSeq(recency, LAMBDA k : k \in DOMAIN gone.tiles)
               /\ lastDelete' = [source |-> source, before |-> tilesTable,
                                 cachedBefore |-> CachedKeys(cache),
                                 removed |-> DOMAIN tilesTable \ DOMAIN gone.tiles,
                                 totalDeleted |-> gone.totalDeleted]
               /\ lastError' = "none"
       ELSE /\ lastError' = outcome
            /\ lastDelete' = Null
            /\ UNCHANGED <<tilesTable, cache, lastPut, recency>>
    /\ lastGet' = Null /\ lastSave' = Null /\ lastHas' = Null
    /\ SchedulerIdle

NextStoreDelete ==
  \/ \E k \in DeleteKeys, data \in StoreBytes : SaveTile(k.z, k.x, k.y, k.source, data)
  \/ \E k \in DeleteKeys : GetTile(k.z, k.x, k.y, k.source)
  \/ \E k \in DeleteKeys : HasTile(k.z, k.x, k.y, k.source)
  \/ \E k \in DeleteKeys : DeleteTile(k.z, k.x, k.y, k.source)
  \/ \E source \in StoreSources, bounds \in BoundsInputs, zz \in DeleteZoomInputs :
       DeleteTilesForJob(source, bounds, zz[1], zz[2])

SpecStoreDelete == Init /\ [][NextStoreDelete]_vars

\* The calls with arguments of every kind, those the validation refuses too:
\* the valid arguments, and those with one argument that is not.
DownloadCalls ==
  (Sources \X BoundsInputs \X (ZoomInputs \cup InvalidZoomInputs))
    \cup (UnknownSources \X BoundsInputs \X ZoomInputs)
    \cup (Sources \X InvalidBoundsInputs \X ZoomInputs)

NextValidation ==
  \/ \E call \in DownloadCalls : Download(call[1], call[2], call[3][1], call[3][2])
  \/ \E jobId \in JobIds, zz \in ZoomInputs \cup InvalidZoomInputs :
       ExtendJob(jobId, zz[1], zz[2])
  \/ Tick
  \/ \E f \in BagToSet(inflight) : RateLimitWake(f)
  \/ \E f \in BagToSet(inflight), data \in ResponseBytes : FetchSucceeds(f, data)

SpecValidation == Init /\ [][NextValidation]_vars

\* ------------------------------------------------------------ claims

\* how many fetches of a job are in flight
FetchCount(fl, jobId) == BagCardinality([f \in FetchesOf(fl, jobId) |-> fl[f]])

\* C1: at no time are more than maxConcurrent fetches in flight, whatever the
\* number of jobs
C1_ConcurrencyBound ==
  /\ BagCardinality(inflight) <= maxConcurrent
  /\ activeDownloads = BagCardinality(inflight)

\* the slots are all taken by fetches of two jobs and a tile is waiting
C1_Witness ==
  /\ BagCardinality(inflight) = maxConcurrent
  /\ Len(queue) > 0
  /\ Cardinality({f.jobId : f \in BagToSet(inflight)}) > 1

\* a step that sends a request
C2_RequestIssued ==
  \E f \in BagToSet(inflight') :
    f.phase = "request" /\ CopiesIn(f, inflight') > CopiesIn(f, inflight)

\* C2: a request is sent only when at least minRequestInterval has passed
\* since the request before it
C2_RequestsSpaced ==
  [][C2_RequestIssued => sinceLastRequest >= minRequestInterval]_vars

\* C3: a job is completed as soon as its downloaded, failed and skipped counts
\* add up to its total and none of its own fetches is in flight, so no job in
\* that condition is still active
C3_CompletionPerJob ==
  \A j \in DOMAIN activeJobs \cap DOMAIN downloadStats :
    ~(/\ Accounted(downloadStats[j]) = activeJobs[j].totalTiles
      /\ FetchesOf(inflight, j) = {})

\* C4: a job that completes is "completed" if no tile of the run failed and
\* "completed_with_errors" if one did
C4_FinalStatus ==
  \A j \in DOMAIN released :
    released[j].how = "completed" =>
      /\ j \in DOMAIN jobsTable
      /\ jobsTable[j].status =
           IF released[j].failed THEN "completed_with_errors" ELSE "completed"

\* C5: a run started with T tiles of which K were stored, and no failed fetch,
\* completes with T - K downloaded, K skipped, none failed and status
\* "completed"
C5_SkipAccounting ==
  \A j \in DOMAIN released :
    (released[j].how = "completed" /\ ~released[j].failed) =>
      /\ released[j].stats.downloadedCount = released[j].T - released[j].K
      /\ released[j].stats.skippedCount = released[j].K
      /\ released[j].stats.failedCount = 0
      /\ jobsTable[j].status = "completed"

\* C6: cancelling an active job removes its tiles from the queue and leaves
\* the other jobs' tiles in their order, sets the status "cancelled" and ends
\* the job's activity; while a job stays inactive none of its tiles is queued
\* and none of its fetches starts
C6_CancelStopsJob ==
  [][\A j \in JobIds :
       /\ (j \in DOMAIN activeJobs /\ CancelJob(j)) =>
            /\ queue' = SelectSeq(queue, LAMBDA task : task.jobId # j)
            /\ j \in DOMAIN jobsTable' /\ jobsTable'[j].status = "cancelled"
            /\ j \notin DOMAIN activeJobs'
            /\ j \notin DOMAIN downloadStats'
            /\ inflight' = inflight
       /\ (j \notin DOMAIN activeJobs /\ j \notin DOMAIN activeJobs') =>
            /\ QueuedOf(queue', j) = <<>>
            /\ FetchCount(inflight', j) <= FetchCount(inflight, j)]_vars

\* a job was cancelled with a tile in the queue and a fetch in flight, and
\* another job's tile is still queued
C6_Witness ==
  \E j \in DOMAIN released :
    /\ released[j].how = "cancelled"
    /\ Accounted(released[j].stats) + FetchCount(inflight, j) < released[j].T
    /\ FetchCount(inflight, j) > 0
    /\ Len(queue) > 0

\* C7: a fetch that finishes for a job no longer active gives its slot back
\* and starts the next queued tiles, stores the tile if it succeeded, and
\* changes neither the job's activity nor its registry row
C7_OrphanFetch ==
  [][\A f \in BagToSet(inflight) :
       (/\ f.jobId \notin DOMAIN activeJobs
        /\ \/ \E data \in ResponseBytes : FetchSucceeds(f, data)
           \/ FetchFails(f)) =>
         /\ activeDownloads' = activeDownloads - 1 + (Len(queue) - Len(queue'))
         /\ CopiesIn(f, inflight') = CopiesIn(f, inflight) - 1
         /\ (Len(queue) > 0 => Len(queue') < Len(queue))
         /\ \A data \in ResponseBytes :
              FetchSucceeds(f, data) =>
                /\ getCacheKey(f.z, f.x, f.y, f.source) \in DOMAIN tilesTable'
                /\ tilesTable'[getCacheKey(f.z, f.x, f.y, f.source)] = data
         /\ f.jobId \notin DOMAIN activeJobs'
         /\ f.jobId \notin DOMAIN downloadStats'
         /\ f.jobId \in DOMAIN jobsTable =>
              /\ f.jobId \in DOMAIN jobsTable'
              /\ jobsTable'[f.jobId] = jobsTable[f.jobId]]_vars

\* a fetch of a cancelled job has just finished, no fetch has ever failed, so
\* its tile is stored, and the registry still holds the count of the cancel
C7_Witness ==
  \E j \in orphanDone :
    /\ j \in DOMAIN jobsTable
    /\ jobsTable[j].status = "cancelled"
    /\ jobsTable[j].downloadedTiles = 0
    /\ failures = 0
    /\ DOMAIN tilesTable # {}

\* C8: the downloaded count the registry holds for a job never decreases
C8_ProgressMonotone ==
  [][\A j \in DOMAIN jobsTable \cap DOMAIN jobsTable' :
       jobsTable'[j].downloadedTiles >= jobsTable[j].downloadedTiles]_vars

\* C9: when a job completes the registry holds the downloaded count of the
\* live counters, whatever that count is modulo the progress interval, and
\* that is the count the status query gives afterwards
C9_FlushAtCompletion ==
  \A j \in DOMAIN released :
    released[j].how = "completed" =>
      /\ j \in DOMAIN jobsTable
      /\ jobsTable[j].downloadedTiles = released[j].stats.downloadedCount
      /\ getJobStatus(j) # Null
      /\ getJobStatus(j).downloadedTiles = released[j].stats.downloadedCount

\* a job has completed with a count past an interval and not a multiple of it
C9_Witness ==
  \E j \in DOMAIN released :
    /\ released[j].how = "completed"
    /\ released[j].stats.downloadedCount > ProgressInterval
    /\ released[j].stats.downloadedCount % ProgressInterval # 0

\* C10: when a job is cancelled the registry holds the downloaded count of
\* the live counters
C10_FlushAtCancel ==
  \A j \in DOMAIN released :
    released[j].how = "cancelled" =>
      /\ j \in DOMAIN jobsTable
      /\ jobsTable[j].downloadedTiles = released[j].stats.downloadedCount

\* C11: the progress a status query reports is round(100 * downloaded / total),
\* and 0 for a total of 0, for an active job and for an inactive one; skipped
\* and failed tiles do not count
C11_ProgressOfDownloaded ==
  \A j \in DOMAIN jobsTable :
    LET st == getJobStatus(j)
    IN st # Null =>
         st.progress = IF st.totalTiles > 0
                       THEN Round(100 * st.downloadedTiles, st.totalTiles) ELSE 0

\* C12: an extendJob that succeeds never narrows the zoom range the registry
\* holds for the job: the stored minZoom does not rise and the stored maxZoom
\* does not fall
C12_ExtendNeverNarrows ==
  [][\A j \in DOMAIN jobsTable, zz \in ZoomInputs :
       ExtendJob(j, zz[1], zz[2]) =>
         /\ j \in DOMAIN jobsTable'
         /\ jobsTable'[j].minZoom <= jobsTable[j].minZoom
         /\ jobsTable'[j].maxZoom >= jobsTable[j].maxZoom]_vars

\* an extendJob of a job that completed without a failure, to a wider range
C13_ExtendsCompleted(j, zz) ==
  /\ jobsTable[j].status = "completed"
  /\ zz[1] <= jobsTable[j].minZoom /\ zz[2] >= jobsTable[j].maxZoom
  /\ zz # <<jobsTable[j].minZoom, jobsTable[j].maxZoom>>
  /\ ExtendJob(j, zz[1], zz[2])

\* what such an extendJob does whatever is left to fetch: the registry total
\* is the tile count of the wider range, no tile of the zoom levels covered
\* before is queued or in flight for the job, and the tiles queued, in flight
\* and skipped are all the tiles of the range
C13_ExtendSkipsCovered(j, zz) ==
  LET job == jobsTable[j]
      tiles == getTileList(job.bounds, zz[1], zz[2])
      covered == {i \in 1..Len(tiles) : tiles[i].z \in job.minZoom..job.maxZoom}
      skipped == IF j \in DOMAIN downloadStats' THEN downloadStats'[j].skippedCount
                 ELSE IF j \in DOMAIN released' THEN released'[j].stats.skippedCount
                 ELSE 0
  IN /\ jobsTable'[j].totalTiles = Len(tiles)
     /\ jobsTable'[j].minZoom = zz[1] /\ jobsTable'[j].maxZoom = zz[2]
     /\ \A i \in 1..Len(queue') :
          queue'[i].jobId = j => queue'[i].z \notin job.minZoom..job.maxZoom
     /\ \A f \in FetchesOf(inflight', j) : f.z \notin job.minZoom..job.maxZoom
     /\ skipped >= Cardinality(covered)
     /\ skipped + Len(QueuedOf(queue', j)) + FetchCount(inflight', j) = Len(tiles)

C14_ValidZoom(zz) == 0 <= zz[1] /\ zz[1] <= zz[2] /\ zz[2] <= 22

C14_ValidDownload(source, bounds, zz) ==
  /\ source \in {"arcgis", "google", "esri-world-imagery"}
  /\ bounds.south < bounds.north
  /\ \A lat \in {bounds.north, bounds.south} : -85051129 <= lat /\ lat <= 85051129
  /\ \A lng \in {bounds.east, bounds.west} : -180000000 <= lng /\ lng <= 180000000
  /\ C14_ValidZoom(zz)

\* the call threw and wrote nothing
C14_Refused ==
  /\ lastError' # "none"
  /\ UNCHANGED <<jobsTable, tilesTable, cache, queue, activeJobs, downloadStats,
                 inflight, activeDownloads, nextJobId>>

C15_StatsAfter(j) ==
  IF j \in DOMAIN downloadStats' THEN downloadStats'[j] ELSE released'[j].stats

\* C15: a failed fetch adds one to the failed counter of its own job and
\* changes no other counter of any job; every other fetch in flight stays in
\* flight and the queue only loses the tiles that are started in the freed
\* slot, so no tile is dropped and the failed tile is not queued or fetched
\* again
C15_FailureIsLocal ==
  [][\A f \in BagToSet(inflight) :
       FetchFails(f) =>
         /\ \A j \in DOMAIN downloadStats :
              /\ j \in DOMAIN downloadStats' \cup DOMAIN released'
              /\ C15_StatsAfter(j) =
                   IF j = f.jobId /\ j \in DOMAIN activeJobs
                   THEN [downloadStats[j] EXCEPT !.failedCount = @ + 1]
                   ELSE downloadStats[j]
         /\ \E n \in 0..Len(queue) : queue' = SubSeq(queue, n + 1, Len(queue))
         /\ \A g \in BagToSet(inflight (-) SetToBag({f})) :
              CopiesIn(g, inflight') >= CopiesIn(g, inflight (-) SetToBag({f}))
         /\ BagCardinality(inflight') + Len(queue')
              = BagCardinality(inflight) + Len(queue) - 1]_vars

\* a fetch of one job has failed while another job is active, a fetch is in
\* flight and a tile is queued
C15_Witness ==
  /\ failures > 0
  /\ Len(queue) > 0
  /\ BagCardinality(inflight) > 0
  /\ \E j, k \in DOMAIN downloadStats :
       j # k /\ downloadStats[j].failedCount = 1 /\ downloadStats[k].failedCount = 0

\* C16: an error of the store while a fetched tile is saved is thrown to the
\* caller and is not counted: it adds to no job's failed counter
C16_SaveErrorPropagates ==
  [][\A f \in BagToSet(inflight), data \in ResponseBytes :
       SaveTileFails(f, data) =>
         /\ lastError' # "none"
         /\ \A j \in DOMAIN downloadStats :
              /\ j \in DOMAIN downloadStats' \cup DOMAIN released'
              /\ C15_StatsAfter(j).failedCount = downloadStats[j].failedCount]_vars

C17_Terminal == {"completed", "completed_with_errors", "cancelled"}

\* nothing is queued or in flight, no job is active and every job of the
\* registry has a terminal status
C17_Drained ==
  /\ queue = <<>>
  /\ inflight = EmptyBag /\ activeDownloads = 0
  /\ DOMAIN activeJobs = {} /\ DOMAIN downloadStats = {}
  /\ \A j \in DOMAIN jobsTable : jobsTable[j].status \in C17_Terminal

\* C17: if every fetch that is started finishes, then whatever is queued, the
\* queue is emptied, and every job that was started gets a terminal status in
\* the registry and is released from the scheduler's tables
C17_EveryJobEnds == (DOMAIN jobsTable # {}) ~> C17_Drained

\* two jobs have ended, one of them with errors, and all is drained
C17_Witness ==
  /\ C17_Drained
  /\ \E j, k \in DOMAIN jobsTable :
       /\ jobsTable[j].status = "completed"
       /\ jobsTable[k].status = "completed_with_errors"

\* C18: the status the registry holds for a job goes from "pending" to
\* "running" (within the download call) and from "running" to "completed",
\* "completed_with_errors" or "cancelled"; a terminal status changes only in
\* an extendJob of that job, and a row is never left "pending"
C18_StatusMoves ==
  [][\A j \in DOMAIN jobsTable' :
       IF j \notin DOMAIN jobsTable
       THEN jobsTable'[j].status \in {"running"} \cup C17_Terminal
       ELSE \/ jobsTable'[j].status = jobsTable[j].status
            \/ /\ jobsTable[j].status = "pending"
               /\ jobsTable'[j].status = "running"
            \/ /\ jobsTable[j].status = "running"
               /\ jobsTable'[j].status \in C17_Terminal
            \/ /\ jobsTable[j].status \in C17_Terminal
               /\ jobsTable'[j].status \in {"running"} \cup C17_Terminal
               /\ \E zz \in ZoomInputs : ExtendJob(j, zz[1], zz[2])]_vars

\* a late fetch of a cancelled job has just failed and the job is still
\* "cancelled", while another job has completed
C18_Witness ==
  /\ failures > 0
  /\ \E j \in orphanDone, k \in DOMAIN jobsTable :
       /\ j \in DOMAIN jobsTable
       /\ jobsTable[j].status = "cancelled"
       /\ jobsTable[k].status \in {"completed", "completed_with_errors"}

\* C19: the status query answers an active job from the live counters, a job
\* that completed or was cancelled from its registry row, being then in
\* neither of the scheduler's tables, and an id in neither place with null
C19_StatusSource ==
  /\ DOMAIN activeJobs = DOMAIN downloadStats
  /\ \A j \in DOMAIN jobsTable :
       jobsTable[j].status \in C17_Terminal => j \notin DOMAIN activeJobs
  /\ \A j \in JobIds :
       LET st == getJobStatus(j)
       IN IF j \in DOMAIN activeJobs
          THEN /\ st # Null
               /\ "queuedTiles" \in DOMAIN st
               /\ st.totalTiles = activeJobs[j].totalTiles
               /\ st.downloadedTiles = downloadStats[j].downloadedCount
               /\ st.skippedTiles = downloadStats[j].skippedCount
               /\ st.failedTiles = downloadStats[j].failedCount
               /\ st.queuedTiles = Len(QueuedOf(queue, j))
               /\ st.status = "running"
          ELSE IF j \in DOMAIN jobsTable
          THEN /\ st # Null
               /\ "minZoom" \in DOMAIN st
               /\ st.totalTiles = jobsTable[j].totalTiles
               /\ st.downloadedTiles = jobsTable[j].downloadedTiles
               /\ st.status = jobsTable[j].status
               /\ st.minZoom = jobsTable[j].minZoom
               /\ st.maxZoom = jobsTable[j].maxZoom
          ELSE st = Null

\* one job is active with a live count the registry does not hold yet while
\* another has ended
C19_Witness ==
  /\ \E j \in DOMAIN activeJobs :
       downloadStats[j].downloadedCount > jobsTable[j].downloadedTiles
  /\ \E j \in DOMAIN jobsTable : jobsTable[j].status \in C17_Terminal

\* C20: for every key that was put, a get returns the bytes of the latest put
\* on that key, whatever gets and puts of other keys came between and whether
\* or not they evicted the key from the cache
C20_RoundTrip ==
  \A t \in StoreTiles, source \in StoreSources :
    LET key == getCacheKey(t.z, t.x, t.y, source)
        got == getTile(cache, tilesTable, t.z, t.x, t.y, source)
    IN key \in DOMAIN lastPut => got.found /\ got.data = lastPut[key]

\* a get has answered, from the table, a key that was put and then evicted,
\* with the bytes of the put, while another key holds other bytes
C20_Witness ==
  /\ lastGet # Null
  /\ lastGet.key \in DOMAIN lastPut
  /\ ~lastGet.hit
  /\ lastGet.found /\ lastGet.data = lastPut[lastGet.key]
  /\ \E k \in DOMAIN lastPut : lastPut[k] # lastPut[lastGet.key]

\* C21: the store holds one tile for each key that was put, however often; a
\* key that was put is reported present, and its row and its cache entry, if
\* it has one, hold the bytes of the latest put
C21_IdempotentUpsert ==
  /\ DOMAIN tilesTable = DOMAIN lastPut
  /\ Cardinality(DOMAIN tilesTable) = Cardinality(DOMAIN lastPut)
  /\ \A t \in StoreTiles, source \in StoreSources :
       LET key == getCacheKey(t.z, t.x, t.y, source)
       IN key \in DOMAIN lastPut =>
            /\ hasTile(cache, tilesTable, t.z, t.x, t.y, source)
            /\ tilesTable[key] = lastPut[key]
            /\ \A e \in Range(cache) : e.key = key => e.data = lastPut[key]
            /\ getTile(cache, tilesTable, t.z, t.x, t.y, source).data = lastPut[key]
            /\ getTile(<<>>, tilesTable, t.z, t.x, t.y, source).data = lastPut[key]

\* the last step put other bytes on a key that was stored and cached, and
\* another key is stored too
C21_Witness ==
  /\ lastSave # Null
  /\ lastSave.existed /\ lastSave.cached
  /\ lastPut[lastSave.key] = lastSave.data
  /\ Cardinality(DOMAIN tilesTable) = 2
  /\ \E k \in DOMAIN lastPut : lastPut[k] # lastSave.data

\* C22: after a put on a key that was in the cache, the key's entry holds the
\* new bytes and is the last (most recently used) of the cache, and every
\* entry that was cached before the put is cached still
C22_PutOnCachedKey ==
  (lastSave # Null /\ lastSave.cached) =>
    /\ cache # <<>>
    /\ cache[Len(cache)] = [key |-> lastSave.key, data |-> lastSave.data]
    /\ lastSave.cachedBefore \subseteq {e.key : e \in Range(cache)}

\* C23: an entry that a get, has or put call removes from the cache is the
\* cached entry whose last touch (get hit, get miss that inserts, has hit,
\* put) is the oldest
C23_StrictLRU ==
  [][\A k \in CachedKeys(cache) \ CachedKeys(cache') :
       LET cachedByTouch == SelectSeq(recency, LAMBDA r : r \in CachedKeys(cache))
       IN k = Head(cachedByTouch)]_vars

\* C24: the cache never holds more entries than its capacity, whatever get,
\* has, put, delete and range-delete calls were made, and holds a key once
C24_CacheBounded ==
  /\ Len(cache) <= maxCacheSize
  /\ Cardinality(CachedKeys(cache)) = Len(cache)

\* a put has just filled the cache to its capacity while more tiles than
\* that are stored
C24_Witness ==
  /\ lastSave # Null
  /\ ~lastSave.cached
  /\ Cardinality(lastSave.cachedBefore) = maxCacheSize
  /\ Len(cache) = maxCacheSize
  /\ Cardinality(DOMAIN tilesTable) > maxCacheSize

\* C25: once capacity + 1 distinct tiles were put into the empty store, the
\* tile put first is the one tile that is not cached, a get of it returns its
\* bytes from the table and caches it, and the get made then has done so
C25_FilledCache ==
  /\ (Cardinality(DOMAIN lastPut) = maxCacheSize + 1 /\ lastGet = Null) =>
       LET evicted == Head(recency)
           got == getTile(cache, tilesTable, evicted[2], evicted[3], evicted[4],
                          evicted[1])
       IN /\ CachedKeys(cache) = DOMAIN lastPut \ {evicted}
          /\ Len(cache) = maxCacheSize
          /\ got.found /\ ~got.hit /\ got.data = lastPut[evicted]
          /\ CacheHas(got.cache, evicted)
  /\ (lastGet # Null /\ lastGet.key \in DOMAIN lastPut /\ ~lastGet.hit) =>
       /\ lastGet.found /\ lastGet.data = lastPut[lastGet.key]
       /\ CacheHas(cache, lastGet.key)

\* the get of the evicted tile was made and was answered from the table
C25_Witness ==
  /\ Cardinality(DOMAIN lastPut) = maxCacheSize + 1
  /\ lastGet # Null
  /\ lastGet.found /\ ~lastGet.hit
  /\ CacheHas(cache, lastGet.key)
  /\ Len(cache) = maxCacheSize

\* the stored keys of a source inside the rectangles of bounds at the zoom levels
C26_InRange(source, bounds, minZoom, maxZoom) ==
  {key \in DOMAIN tilesTable :
     /\ key[1] = source
     /\ key[2] \in minZoom..maxZoom
     /\ key[3] >= getTileBounds(bounds, key[2]).minX
     /\ key[3] <= getTileBounds(bounds, key[2]).maxX
     /\ key[4] >= getTileBounds(bounds, key[2]).minY
     /\ key[4] <= getTileBounds(bounds, key[2]).maxY}

\* C26: a range deletion removes from the table the tiles of the source and
\* zoom levels inside the rectangle and no other, returns their number, and
\* afterwards has and get report the removed keys absent, cached or not, and
\* every other key with its bytes
C26_RangeDeletion ==
  [][\A source \in StoreSources, bounds \in BoundsInputs, zz \in DeleteZoomInputs :
       DeleteTilesForJob(source, bounds, zz[1], zz[2]) =>
         LET gone == C26_InRange(source, bounds, zz[1], zz[2])
         IN /\ DOMAIN tilesTable' = DOMAIN tilesTable \ gone
            /\ lastDelete' # Null
            /\ lastDelete'.totalDeleted = Cardinality(gone)
            /\ \A k \in DeleteKeys :
                 LET key == getCacheKey(k.z, k.x, k.y, k.source)
                     got == getTile(cache', tilesTable', k.z, k.x, k.y, k.source)
                 IN /\ key \in gone =>
                         /\ ~hasTile(cache', tilesTable', k.z, k.x, k.y, k.source)
                         /\ ~got.found
                    /\ key \in DOMAIN tilesTable \ gone =>
                         /\ hasTile(cache', tilesTable', k.z, k.x, k.y, k.source)
                         /\ got.found /\ got.data = tilesTable[key]]_vars

\* C27: every cache entry has a row with the same bytes, so that has reports
\* only keys the table holds and get returns only the table's bytes, whatever
\* get, has, put, deleteTile and range-delete calls were made
C27_WriteThrough ==
  /\ \A e \in Range(cache) :
       e.key \in DOMAIN tilesTable /\ tilesTable[e.key] = e.data
  /\ \A k \in DeleteKeys :
       LET key == getCacheKey(k.z, k.x, k.y, k.source)
           got == getTile(cache, tilesTable, k.z, k.x, k.y, k.source)
       IN /\ hasTile(cache, tilesTable, k.z, k.x, k.y, k.source) =>
               key \in DOMAIN tilesTable
          /\ got.found => key \in DOMAIN tilesTable /\ got.data = tilesTable[key]

\* a deletion has just removed a cached tile while another tile stays cached
C27_Witness ==
  /\ lastDelete # Null
  /\ lastDelete.removed \cap lastDelete.cachedBefore # {}
  /\ cache # <<>>

\* C28: a get of a key that neither the cache nor the table holds answers
\* null, throws nothing and leaves the cache, its order and the table as
\* they were
C28_GetOfAbsentKey ==
  [][\A k \in DeleteKeys :
       (/\ ~CacheHas(cache, getCacheKey(k.z, k.x, k.y, k.source))
        /\ getCacheKey(k.z, k.x, k.y, k.source) \notin DOMAIN tilesTable
        /\ GetTile(k.z, k.x, k.y, k.source)) =>
         /\ ~lastGet'.found
         /\ lastError' = "none"
         /\ cache' = cache
         /\ tilesTable' = tilesTable]_vars

\* a get of an absent key was answered with null while the cache was full
C28_Witness ==
  /\ lastGet # Null
  /\ ~lastGet.found
  /\ Len(cache) = maxCacheSize
  /\ lastGet.key \notin DOMAIN tilesTable

\* the stored tiles of a job: of its source, inside its bounds, at a zoom
\* level it ever covered
C29_TilesOfJob(jobId) ==
  {key \in DOMAIN tilesTable :
     /\ key[1] = jobsTable[jobId].source
     /\ key[2] \in zoomsCovered[jobId]
     /\ key[3] >= getTileBounds(jobsTable[jobId].bounds, key[2]).minX
     /\ key[3] <= getTileBounds(jobsTable[jobId].bounds, key[2]).maxX
     /\ key[4] >= getTileBounds(jobsTable[jobId].bounds, key[2]).minY
     /\ key[4] <= getTileBounds(jobsTable[jobId].bounds, key[2]).maxY}

\* C29: deleting a job with its tiles removes the job's row and every stored
\* tile of the job at every zoom level it ever covered; deleting it without
\* its tiles removes the row and leaves the tiles
C29_DeleteJobCascade ==
  [][\A jobId \in DOMAIN jobsTable :
       /\ DeleteJob(jobId, TRUE) =>
            /\ jobId \notin DOMAIN jobsTable'
            /\ C29_TilesOfJob(jobId) \cap DOMAIN tilesTable' = {}
       /\ DeleteJob(jobId, FALSE) =>
            /\ jobId \notin DOMAIN jobsTable'
            /\ tilesTable' = tilesTable]_vars

\* C30: for bounds the validity predicate accepts, the limits included, and
\* a zoom level z of 0..22, the tile range has minX <= maxX, minY <= maxY
\* and all four values in 0..2^z - 1
C30_TileRangeInGrid ==
  (lastTileBounds # Null /\ isValidBounds(lastTileBounds.bounds)) =>
    LET r == lastTileBounds.result
        maxTile == Pow2(lastTileBounds.zoom) - 1
    IN /\ r.minX <= r.maxX /\ r.minY <= r.maxY
       /\ {r.minX, r.maxX, r.minY, r.maxY} \subseteq 0..maxTile

\* the tiles of the rectangles getTileBounds gives for the zoom levels
C31_Rectangles(bounds, minZoom, maxZoom) ==
  UNION {{[x |-> x, y |-> y, z |-> z] :
            x \in getTileBounds(bounds, z).minX..getTileBounds(bounds, z).maxX,
            y \in getTileBounds(bounds, z).minY..getTileBounds(bounds, z).maxY} :
         z \in minZoom..maxZoom}

\* C31: for valid bounds and a valid zoom range the tile count equals the
\* length of the tile list, and the list holds each tile of each zoom level's
\* rectangle once and no other tile
C31_CountIsListLength ==
  (lastTileList # Null) =>
    LET bounds == lastTileList.bounds
        minZoom == lastTileList.minZoom
        maxZoom == lastTileList.maxZoom
    IN IF lastTileList.call = "getTileList"
       THEN /\ Len(lastTileList.tiles) = calculateTileCount(bounds, minZoom, maxZoom)
            /\ Range(lastTileList.tiles) = C31_Rectangles(bounds, minZoom, maxZoom)
            /\ Cardinality(Range(lastTileList.tiles)) = Len(lastTileList.tiles)
       ELSE lastTileList.count = Len(getTileList(bounds, minZoom, maxZoom))

\* a list of several zoom levels with a rectangle more than one tile wide and
\* more than one tile high was made
C31_Witness ==
  /\ lastTileList # Null
  /\ lastTileList.call = "getTileList"
  /\ lastTileList.maxZoom > lastTileList.minZoom
  /\ \E s, t \in Range(lastTileList.tiles) : s.z = t.z /\ s.x < t.x /\ s.y < t.y

\* C32: for valid bounds and a valid zoom range, the tile count of estimate,
\* the total download returns, the total of the registry row and the total
\* the status query gives right after the download are equal, and the status
\* it gives then is "running" or a terminal status, never "pending"
C32_TotalsAgree ==
  [][\A source \in Sources, bounds \in BoundsInputs, zz \in ZoomInputs, j \in JobIds :
       (j = nextJobId /\ Download(source, bounds, zz[1], zz[2])) =>
         LET tileCount == estimate(bounds, zz[1], zz[2]).tileCount
         IN /\ DownloadResult(source, bounds, zz[1], zz[2]).jobId = j
            /\ DownloadResult(source, bounds, zz[1], zz[2]).totalTiles = tileCount
            /\ j \in DOMAIN jobsTable'
            /\ jobsTable'[j].totalTiles = tileCount
            /\ getJobStatus(j)' # Null
            /\ getJobStatus(j)'.totalTiles = tileCount
            /\ getJobStatus(j)'.status \in {"running"} \cup C17_Terminal]_vars

\* the second download found all its tiles stored and completed within the
\* call, with the status answered from the registry
C32_Witness ==
  /\ 2 \in DOMAIN released /\ 2 \in DOMAIN jobsTable
  /\ released[2].how = "completed"
  /\ released[2].T > 1
  /\ released[2].stats.skippedCount = released[2].T
  /\ getJobStatus(2).status = "completed"
  /\ getJobStatus(2).totalTiles = released[2].T

\* C33: cancelJob of a job that is not active (an unknown id, a job that has
\* completed or was cancelled) returns false and changes nothing: not the
\* job's registry row, the queue, the in-flight count and fetches, the other
\* jobs' live tables or the store
C33_CancelOfInactive ==
  [][\A j \in JobIds :
       (j \notin DOMAIN activeJobs /\ CancelJob(j)) =>
         /\ lastCancel' = [jobId |-> j, result |-> FALSE]
         /\ UNCHANGED <<jobsTable, queue, activeDownloads, inflight, activeJobs,
                        downloadStats, sinceLastRequest, tilesTable, cache>>]_vars

\* a cancelled job was just cancelled again, in vain, while another job has a
\* tile queued and a fetch in flight
C33_Witness ==
  /\ lastCancel # Null
  /\ ~lastCancel.result
  /\ lastCancel.jobId \in DOMAIN jobsTable
  /\ jobsTable[lastCancel.jobId].status = "cancelled"
  /\ DOMAIN activeJobs # {}
  /\ Len(queue) > 0
  /\ BagCardinality(inflight) > 0

\* how many entries of the queue and fetches in flight a job has for a tile
C34_Pending(q, fl, j, t) ==
  Cardinality({i \in DOMAIN q : q[i].jobId = j /\ q[i].z = t.z /\ q[i].x = t.x
                                  /\ q[i].y = t.y})
    + BagCardinality([f \in {g \in BagToSet(fl) : g.jobId = j /\ g.z = t.z /\ g.x = t.x
                                                     /\ g.y = t.y} |-> fl[f]])

\* what the startJob of a step has done with the tiles of its list: nothing
\* but a count for a tile the store held, one entry, queued or started, for
\* every other tile, and a slot for each entry the step took off the queue
C34_StartSkips(j, source, tiles) ==
  LET existing == ExistingTiles(source, tiles)
      skipped == IF j \in DOMAIN downloadStats' THEN downloadStats'[j].skippedCount
                 ELSE released'[j].stats.skippedCount
  IN /\ j \in DOMAIN downloadStats' \cup DOMAIN released'
     /\ skipped = Cardinality(existing)
     /\ \A i \in 1..Len(tiles) :
          C34_Pending(queue', inflight', j, tiles[i]) =
            C34_Pending(queue, inflight, j, tiles[i]) + (IF i \in existing THEN 0 ELSE 1)
     /\ Len(queue') + BagCardinality(inflight') =
          Len(queue) + BagCardinality(inflight) + Len(tiles) - Cardinality(existing)
     /\ activeDownloads' - activeDownloads =
          BagCardinality(inflight') - BagCardinality(inflight)

\* C34: a tile the store holds when startJob examines it is counted as
\* skipped at once; the run puts no entry for it in the queue, takes no slot
\* and sends no request for it
C34_SkipBeforeSlot ==
  [][/\ \A source \in Sources, bounds \in BoundsInputs, zz \in ZoomInputs, j \in JobIds :
          (j = nextJobId /\ Download(source, bounds, zz[1], zz[2])) =>
            C34_StartSkips(j, source, getTileList(bounds, zz[1], zz[2]))
     /\ \A j \in DOMAIN jobsTable, zz \in ZoomInputs :
          ExtendJob(j, zz[1], zz[2]) =>
            C34_StartSkips(j, jobsTable[j].source,
                           getTileList(jobsTable[j].bounds, zz[1], zz[2]))]_vars

\* a run has started that skipped the tiles the store held and has the others
\* queued or in flight
C34_Witness ==
  \E j \in DOMAIN runPlan \cap DOMAIN downloadStats :
    /\ runPlan[j].K > 0
    /\ downloadStats[j].skippedCount = runPlan[j].K
    /\ Accounted(downloadStats[j]) = runPlan[j].K
    /\ FetchCount(inflight, j) = runPlan[j].T - runPlan[j].K
    /\ FetchCount(inflight, j) > 0

\* the tasks of the fetches in flight, as a bag
C35_TasksInFlight(fl) ==
  BagOfAll(LAMBDA f : [jobId |-> f.jobId, source |-> f.source, z |-> f.z,
                       x |-> f.x, y |-> f.y], fl)

RECURSIVE C35_TasksOf(_)
C35_TasksOf(q) ==
  IF q = <<>> THEN EmptyBag ELSE SetToBag({Head(q)}) (+) C35_TasksOf(Tail(q))

\* C35: the in-flight counter is the number of fetches started and not
\* finished and is never negative; a fetch that finishes, with a success or a
\* failure and whether its job is active or not, gives back one slot, and the
\* tiles at the head of the queue are started at once in the slots then free
C35_SlotAccounting ==
  [][/\ activeDownloads' >= 0
     /\ activeDownloads' = BagCardinality(inflight')
     /\ \A f \in BagToSet(inflight) :
          (\/ \E data \in ResponseBytes : FetchSucceeds(f, data)
           \/ FetchFails(f)) =>
            LET n == Min(maxConcurrent - (activeDownloads - 1), Len(queue))
            IN /\ activeDownloads' = activeDownloads - 1 + n
               /\ Len(queue) > 0 => n >= 1
               /\ queue' = SubSeq(queue, n + 1, Len(queue))
               /\ C35_TasksInFlight(inflight') =
                    (C35_TasksInFlight(inflight) (-) C35_TasksInFlight(SetToBag({f})))
                      (+) C35_TasksOf(SubSeq(queue, 1, n))]_vars

\* a late fetch of a job no longer active has just failed, its slot went to
\* the next tile of the queue, and a tile is still queued
C35_Witness ==
  /\ orphanDone # {}
  /\ failures > 0
  /\ activeDownloads = maxConcurrent
  /\ Len(queue) > 0
  /\ \E f \in BagToSet(inflight) : f.jobId \notin orphanDone

\* C36: for every active job the downloaded, skipped and failed counts add up
\* to no more than the total of its current run, so the progress reported
\* never exceeds 100, whatever downloads, extensions, also of a running job
\* or after a cancel with fetches in flight, and fetch completions were made
C36_CountsWithinTotal ==
  \A j \in DOMAIN activeJobs \cap DOMAIN downloadStats :
    /\ Accounted(downloadStats[j]) <= activeJobs[j].totalTiles
    /\ liveJobStatus(j).progress <= 100

\* C37: the scheduler's two tables have the same jobs, and a job is in them
\* if and only if the registry has its row with the status "running": no job
\* is active without a row, and no row is "running" once its job is released
C37_ActiveIffRunning ==
  /\ DOMAIN activeJobs = DOMAIN downloadStats
  /\ \A j \in JobIds :
       j \in DOMAIN activeJobs <=>
         (j \in DOMAIN jobsTable /\ jobsTable[j].status = "running")

\* a deleteJob has just thrown after its cancel, so the job's row is left
\* and is "cancelled", while another job is active and a fetch of the
\* cancelled job is still in flight
C37_Witness ==
  /\ lastError = "ReferenceError"
  /\ DOMAIN activeJobs # {}
  /\ \E j \in DOMAIN jobsTable :
       /\ jobsTable[j].status = "cancelled"
       /\ FetchCount(inflight, j) > 0

\* C38: after a job was deleted with its tiles, a fetch of the job that was
\* in flight then and succeeds later leaves the store without its tile
C38_NoWriteBack ==
  [][\A f \in BagToSet(inflight), data \in ResponseBytes :
       (/\ lastDelete # Null
        /\ lastDelete.jobId = f.jobId /\ lastDelete.deleteTiles
        /\ f.jobId \notin DOMAIN jobsTable
        /\ getCacheKey(f.z, f.x, f.y, f.source) \notin DOMAIN tilesTable
        /\ FetchSucceeds(f, data)) =>
         /\ getCacheKey(f.z, f.x, f.y, f.source) \notin DOMAIN tilesTable'
         /\ ~hasTile(cache', tilesTable', f.z, f.x, f.y, f.source)]_vars

\* C39: an extendJob of a job whose previous run is still active queues no
\* tile that the job has queued or in flight already, so a job never has two
\* entries, queued or in flight, for one tile, and no tile is requested twice
C39_NoTileTwice ==
  \A j \in JobIds, bounds \in BoundsInputs :
    \A t \in Range(getTileList(bounds, 0, 1)) :
      C34_Pending(queue, inflight, j, t) <= 1

====
